---- MODULE Spec2Model ----
(***************************************************************************)
(* The planner -> executor -> verifier pipeline of the repository and the  *)
(* harnesses that drive it: the batch evaluation of src/openai.py and      *)
(* src/phi.py (main) and the interactive entry point of src/app.py         *)
(* (run_agent_system).                                                     *)
(*                                                                         *)
(* Python strings that the code inspects are tuples of one-character       *)
(* strings, so that startswith, the in-operator on strings, f-string       *)
(* concatenation and json.dumps are computed character by character.       *)
(* Python values are tagged records [t |-> type, v |-> value]; a dict is a *)
(* record over the keys the code reads, a missing key holding Absent.      *)
(***************************************************************************)
EXTENDS Integers, Sequences, FiniteSets, TLC

\* ----------------------------------------------------------------- bounds
\* how many entries of BENCHMARK_TASKS the batch iterates
NumTasks == 2
\* how many language-model calls of one execution may fail transiently
MaxFaults == 1
\* how many requests the interactive entry point serves
MaxRequests == 2

\* ---------------------------------------------------------- Python values
None == [t |-> "none", v |-> 0]
Absent == [t |-> "absent", v |-> 0]
Str(s) == [t |-> "str", v |-> s]
Bool(b) == [t |-> "bool", v |-> b]
Num(n) == [t |-> "num", v |-> n]
List(l) == [t |-> "list", v |-> l]
Dict(d) == [t |-> "dict", v |-> d]

\* the keys the three scripts read from or write to a dict; "other" stands for
\* any key the code never reads
Keys == {"task", "checklist", "verified", "reasoning", "error", "other"}
EmptyDict == [k \in Keys |-> Absent]

\* d.get(k), d.get(k, default), k in d
get(d, k) == IF d[k].t = "absent" THEN None ELSE d[k]
get_default(d, k, default) == IF d[k].t = "absent" THEN default ELSE d[k]
has_key(d, k) == d[k].t # "absent"

\* Python truth value of x (bool(x)), as `or` and `not` use it
Truthy(x) ==
    CASE x.t = "none" -> FALSE
      [] x.t = "bool" -> x.v
      [] x.t = "num" -> x.v # 0
      [] x.t = "str" -> Len(x.v) > 0
      [] x.t = "list" -> Len(x.v) > 0
      [] x.t = "dict" -> \E k \in Keys : has_key(x.v, k)

\* x == s for a str literal s
PyEqStr(x, s) == x.t = "str" /\ x.v = s

\* s.startswith(prefix)
startswith(s, prefix) ==
    /\ Len(s) >= Len(prefix)
    /\ SubSeq(s, 1, Len(prefix)) = prefix

\* sub in s, for two str
contains(s, sub) ==
    \E i \in 0..(Len(s) - Len(sub)) : SubSeq(s, i + 1, i + Len(sub)) = sub

\* json.dumps: the characters of a str, with the quote and the backslash escaped
RECURSIVE json_escape(_)
json_escape(s) ==
    IF s = <<>> THEN <<>>
    ELSE (IF Head(s) \in {"\"", "\\"} THEN <<"\\", Head(s)>> ELSE <<Head(s)>>)
         \o json_escape(Tail(s))

\* json.dumps(x) for the values a checklist can hold: null, a bool, a digit,
\* a str, or a list of these joined by ", "
RECURSIVE json_dumps(_)
RECURSIVE json_join(_)
json_join(l) ==
    IF l = <<>> THEN <<>>
    ELSE json_dumps(Head(l))
         \o (IF Tail(l) = <<>> THEN <<>> ELSE <<","," ">> \o json_join(Tail(l)))
json_dumps(x) ==
    CASE x.t = "none" -> <<"n","u","l","l">>
      [] x.t = "bool" -> (IF x.v THEN <<"t","r","u","e">> ELSE <<"f","a","l","s","e">>)
      [] x.t = "num" -> <<ToString(x.v)>>
      [] x.t = "str" -> <<"\"">> \o json_escape(x.v) \o <<"\"">>
      [] x.t = "list" -> <<"[">> \o json_join(x.v) \o <<"]">>

\* ------------------------------------------------------ literals of the code
\* the marker the No-Verifier baseline tests with startswith
ErrorMarker == <<"E","r","r","o","r",":">>
\* src/openai.py
PLANNER_AGENT_FAILED == <<"P","L","A","N","N","E","R","_","A","G","E","N","T","_","F","A","I","L","E","D">>
ExecutorFailedTask == <<"E","r","r","o","r",":"," ","E","x","e","c","u","t","o","r"," ","r","e","c","e","i","v","e","d"," ","a"," ","f","a","i","l","e","d"," ","t","a","s","k"," ","f","r","o","m"," ","t","h","e"," ","p","l","a","n","n","e","r",".">>
NoSearchResults == <<"E","r","r","o","r",":"," ","N","o"," ","s","e","a","r","c","h"," ","r","e","s","u","l","t","s"," ","f","o","u","n","d",".">>
ErrorDuringExecution == <<"E","r","r","o","r"," ","d","u","r","i","n","g"," ","e","x","e","c","u","t","i","o","n",":"," ">>
VerificationSkipped == <<"V","e","r","i","f","i","c","a","t","i","o","n"," ","s","k","i","p","p","e","d"," ","b","e","c","a","u","s","e"," ","t","h","e"," ","p","l","a","n","n","e","r"," ","a","g","e","n","t"," ","f","a","i","l","e","d"," ","t","o"," ","c","r","e","a","t","e"," ","a"," ","c","h","e","c","k","l","i","s","t",".">>
VerificationApiError == <<"E","r","r","o","r"," ","i","n"," ","v","e","r","i","f","i","c","a","t","i","o","n"," ","A","P","I"," ","c","a","l","l">>
SelfVerificationSkipped == <<"S","e","l","f","-","v","e","r","i","f","i","c","a","t","i","o","n"," ","s","k","i","p","p","e","d"," ","b","e","c","a","u","s","e"," ","t","h","e"," ","p","l","a","n","n","e","r"," ","a","g","e","n","t"," ","f","a","i","l","e","d",".">>
SelfVerificationApiError == <<"E","r","r","o","r"," ","i","n"," ","s","e","l","f","-","v","e","r","i","f","i","c","a","t","i","o","n"," ","A","P","I"," ","c","a","l","l">>
NoVerifierReasoning == <<"N","o"," ","v","e","r","i","f","i","e","r"," ","p","r","e","s","e","n","t","."," ","A","s","s","u","m","e","d"," ","s","u","c","c","e","s","s",".">>
\* src/phi.py
ErrorInPlanning == <<"E","r","r","o","r"," ","i","n"," ","p","l","a","n","n","i","n","g">>
ErrorPrefix == <<"E","r","r","o","r",":"," ">>
ErrorInVerification == <<"E","r","r","o","r"," ","i","n"," ","v","e","r","i","f","i","c","a","t","i","o","n",":"," ">>
ErrorInSelfVerification == <<"E","r","r","o","r"," ","i","n"," ","s","e","l","f","-","v","e","r","i","f","i","c","a","t","i","o","n",":"," ">>
\* src/app.py
ClientNotInitialized == <<"O","p","e","n","A","I"," ","c","l","i","e","n","t"," ","n","o","t"," ","i","n","i","t","i","a","l","i","z","e","d","."," ","C","h","e","c","k"," ","A","P","I"," ","K","e","y"," ","i","n"," ","S","p","a","c","e"," ","S","e","c","r","e","t","s",".">>
ApiCallFailed == <<"A","P","I"," ","C","a","l","l"," ","F","a","i","l","e","d",":"," ">>
ExecutorInvalidTask == <<"E","r","r","o","r",":"," ","E","x","e","c","u","t","o","r"," ","r","e","c","e","i","v","e","d"," ","a","n"," ","i","n","v","a","l","i","d"," ","t","a","s","k"," ","f","r","o","m"," ","t","h","e"," ","p","l","a","n","n","e","r",".">>
AppNoVerifierReasoning == <<"N","o"," ","V","e","r","i","f","i","e","r"," ","p","r","e","s","e","n","t","."," ","A","s","s","u","m","e","d"," ","s","u","c","c","e","s","s"," ","i","f"," ","n","o"," ","e","x","e","c","u","t","i","o","n"," ","e","r","r","o","r",".">>
FAILED == <<"F","A","I","L","E","D">>
error == <<"e","r","r","o","r">>

\* ------------------------------------------------------------ the benchmark
\* the first entries of BENCHMARK_TASKS (the same list in both batch scripts)
Goals ==
    << "What is the boiling point of water at sea level in Celsius?",
       "Who is the current CEO of Microsoft?",
       "What year did the first moon landing occur?",
       "Find the main ingredient in a traditional Japanese Miso soup.",
       "What is the capital city of Australia?" >>
BENCHMARK_TASKS == [i \in 1..NumTasks |-> [id |-> i, goal |-> Goals[i]]]

Scripts == {"openai", "phi", "app"}
Batch == {"openai", "phi"}

\* the systems dict of main, in declaration order (dicts iterate in insertion
\* order), and the choices of the Radio of app.py
systems(s) ==
    CASE s = "openai" -> << [name |-> "Verifier_System_GPT4o", kind |-> "verifier"],
                            [name |-> "No_Verifier_Baseline_GPT4o", kind |-> "none"],
                            [name |-> "Self_Verifier_Baseline_GPT4o", kind |-> "self"] >>
      [] s = "phi" -> << [name |-> "Verifier_System", kind |-> "verifier"],
                         [name |-> "No_Verifier_Baseline", kind |-> "none"],
                         [name |-> "Self_Verifier_Baseline", kind |-> "self"] >>
      [] s = "app" -> << [name |-> "Verifier System", kind |-> "verifier"],
                         [name |-> "Self-Verifier Baseline", kind |-> "self"],
                         [name |-> "No Verifier Baseline", kind |-> "none"] >>

csv_headers ==
    << "task_id", "goal", "system_type", "planner_task", "planner_checklist",
       "executor_output", "system_reported_success", "verifier_reasoning" >>

\* --------------------------------------------------- the external backends
\* what a language-model call comes back with: a parsed JSON object, or an
\* exception raised by the client or by json.loads
LlmOk(body) == [kind |-> "ok", body |-> body, exc |-> "", msg |-> <<>>]
LlmRaise(exc, msg) == [kind |-> "raise", body |-> EmptyDict, exc |-> exc, msg |-> msg]
\* what ddgs.text comes back with: the bodies of the results, or an exception
SearchOk(results) == [kind |-> "ok", results |-> results, msg |-> <<>>]
SearchRaise(msg) == [kind |-> "raise", results |-> <<>>, msg |-> msg]

TaskText == <<"F","i","n","d"," ","t","h","e"," ","C","E","O"," ","o","f"," ","M","i","c","r","o","s","o","f","t">>
CheckText == <<"N","a","m","e","s"," ","a"," ","p","e","r","s","o","n">>
\* JSON objects a planner call can return
PlanBodies ==
    { [EmptyDict EXCEPT !.task = Str(TaskText), !.checklist = List(<<Str(CheckText)>>)],
      [EmptyDict EXCEPT !.task = Str(TaskText), !.checklist = List(<<>>)],
      [EmptyDict EXCEPT !.task = Str(TaskText)],
      [EmptyDict EXCEPT !.checklist = List(<<Str(CheckText)>>)],
      [EmptyDict EXCEPT !.task = Str(PLANNER_AGENT_FAILED), !.checklist = List(<<Str(CheckText)>>)],
      EmptyDict }
\* JSON objects a verification call can return
VerdictBodies ==
    { [EmptyDict EXCEPT !.verified = Bool(TRUE), !.reasoning = Str(<<"A","l","l"," ","c","h","e","c","k","s"," ","p","a","s","s">>)],
      [EmptyDict EXCEPT !.verified = Bool(FALSE), !.reasoning = Str(<<"N","o","t"," ","s","u","p","p","o","r","t","e","d">>)],
      [EmptyDict EXCEPT !.other = Num(1)],
      EmptyDict }
\* what a search can return: one snippet (a plain one, the empty one, one that
\* holds the marker after its first character), no result, or an exception
\* that every search raises
SearchResponses ==
    { SearchOk(<<<<"S","a","t","y","a"," ","N","a","d","e","l","l","a"," ","i","s"," ","t","h","e"," ","C","E","O"," ","o","f"," ","M","i","c","r","o","s","o","f","t",".">>>>),
      SearchOk(<<<<>>>>),
      SearchOk(<<<<"H","T","T","P"," ","E","r","r","o","r",":"," ","4","0","4">>>>),
      SearchOk(<<>>),
      SearchRaise(<<"r","a","t","e","l","i","m","i","t">>) }
\* failures that every language-model call of an execution meets (a bad key,
\* an unknown model, no network) and the failure of a single call (a body
\* that json.loads cannot parse)
PersistentLlmFailures ==
    { LlmRaise("AuthenticationError", <<"4","0","1">>),
      LlmRaise("NotFoundError", <<"4","0","4">>),
      LlmRaise("APIConnectionError", <<"c","o","n","n">>) }
TransientLlmFailures == { LlmRaise("JSONDecodeError", <<"j","s","o","n">>) }

\* a stubbed backend: the canned answer to a planner call, to a verification
\* call and to a search; a language-model call may fail transiently in place
\* of its canned answer, the search backend answers every search alike
CannedBackends ==
    { [plan |-> LlmOk(p), verdict |-> LlmOk(v), search |-> s] :
        p \in PlanBodies, v \in VerdictBodies, s \in SearchResponses }
    \cup
    { [plan |-> f, verdict |-> f, search |-> s] :
        f \in PersistentLlmFailures, s \in SearchResponses }

\* ------------------------------------------------------------ src/openai.py
\* call_openai_api: the parsed object, or None from each of the except clauses
openai_call_openai_api(resp) ==
    IF resp.kind = "ok" THEN Dict(resp.body)
    ELSE CASE resp.exc = "NotFoundError" -> None
           [] resp.exc = "AuthenticationError" -> None
           [] OTHER -> None

\* a planner that hands on what call_openai_api returned, None included
openai_planner_agent_unguarded(resp) == openai_call_openai_api(resp)

\* planner_agent_openai: result or the failed plan
openai_planner_agent_openai(resp) ==
    LET result == openai_call_openai_api(resp)
    IN  IF Truthy(result) THEN result
        ELSE Dict([EmptyDict EXCEPT !.task = Str(PLANNER_AGENT_FAILED),
                                    !.checklist = List(<<>>)])

\* executor_agent without the sentinel test of line 72
openai_executor_never_returns_early(task) == FALSE

\* executor_agent: the test that returns before the search is made
openai_executor_returns_early(task) == PyEqStr(task, PLANNER_AGENT_FAILED)

\* executor_agent: the value returned without a search
openai_executor_early_output == ExecutorFailedTask

\* executor_agent: the value returned from the try block, given what the
\* search came back with
openai_executor_output(sr) ==
    IF sr.kind = "raise" THEN ErrorDuringExecution \o sr.msg
    ELSE IF sr.results # <<>> THEN sr.results[1] ELSE NoSearchResults

\* verifier_agent_openai: `if not checklist`
openai_verifier_returns_early(checklist) == ~Truthy(checklist)

openai_verifier_early_result ==
    Dict([EmptyDict EXCEPT !.verified = Bool(FALSE), !.reasoning = Str(VerificationSkipped)])

\* verifier_agent_openai without the `or` fallback of line 90
openai_verifier_agent_unguarded(resp) == openai_call_openai_api(resp)

\* verifier_agent_openai: result or the failed verdict
openai_verifier_agent_openai(resp) ==
    LET result == openai_call_openai_api(resp)
    IN  IF Truthy(result) THEN result
        ELSE Dict([EmptyDict EXCEPT !.verified = Bool(FALSE),
                                    !.reasoning = Str(VerificationApiError)])

\* self_verifier_agent_openai
openai_self_verifier_returns_early(original_task) ==
    PyEqStr(original_task, PLANNER_AGENT_FAILED)

openai_self_verifier_early_result ==
    Dict([EmptyDict EXCEPT !.verified = Bool(FALSE),
                           !.reasoning = Str(SelfVerificationSkipped)])

openai_self_verifier_agent_openai(resp) ==
    LET result == openai_call_openai_api(resp)
    IN  IF Truthy(result) THEN result
        ELSE Dict([EmptyDict EXCEPT !.verified = Bool(FALSE),
                                    !.reasoning = Str(SelfVerificationApiError)])

\* a baseline that looks for the marker anywhere in the output
openai_no_verifier_result_anywhere(output) ==
    Dict([EmptyDict EXCEPT !.verified = Bool(~contains(output, ErrorMarker)),
                           !.reasoning = Str(NoVerifierReasoning)])

\* run_no_verifier_system_openai: the result built from the output
openai_no_verifier_result(output) ==
    Dict([EmptyDict EXCEPT !.verified = Bool(~startswith(output, ErrorMarker)),
                           !.reasoning = Str(NoVerifierReasoning)])

\* --------------------------------------------------------------- src/phi.py
\* planner_agent
phi_planner_agent(resp) ==
    IF resp.kind = "ok" THEN Dict(resp.body)
    ELSE Dict([EmptyDict EXCEPT !.task = Str(ErrorInPlanning),
                                !.checklist = List(<<Str(ErrorPrefix \o resp.msg)>>)])

\* executor_agent has no test before the search
phi_executor_returns_early(task) == FALSE

phi_executor_output(sr) ==
    IF sr.kind = "raise" THEN ErrorDuringExecution \o sr.msg
    ELSE IF sr.results # <<>> THEN sr.results[1] ELSE NoSearchResults

\* verifier_agent and self_verifier_agent always make the call
phi_verifier_returns_early(checklist) == FALSE

phi_verifier_agent(resp) ==
    IF resp.kind = "ok" THEN Dict(resp.body)
    ELSE Dict([EmptyDict EXCEPT !.verified = Bool(FALSE),
                                !.reasoning = Str(ErrorInVerification \o resp.msg)])

phi_self_verifier_returns_early(original_task) == FALSE

phi_self_verifier_agent(resp) ==
    IF resp.kind = "ok" THEN Dict(resp.body)
    ELSE Dict([EmptyDict EXCEPT !.verified = Bool(FALSE),
                                !.reasoning = Str(ErrorInSelfVerification \o resp.msg)])

phi_no_verifier_result(output) ==
    Dict([EmptyDict EXCEPT !.verified = Bool(~startswith(output, ErrorMarker)),
                           !.reasoning = Str(NoVerifierReasoning)])

\* --------------------------------------------------------------- src/app.py
\* call_openai_api: the error dict without a client, else the parsed object or
\* the error dict of the except clause
app_call_openai_api(client, resp) ==
    IF ~client THEN Dict([EmptyDict EXCEPT !.error = Str(ClientNotInitialized)])
    ELSE IF resp.kind = "ok" THEN Dict(resp.body)
    ELSE Dict([EmptyDict EXCEPT !.error = Str(ApiCallFailed \o resp.msg)])

\* a planner that answers a failed call with the sentinel plan of the batch
\* script, which has no "error" key
app_planner_agent_sentinel(client, resp) ==
    IF client /\ resp.kind = "ok" THEN Dict(resp.body)
    ELSE Dict([EmptyDict EXCEPT !.task = Str(PLANNER_AGENT_FAILED), !.checklist = List(<<>>)])

\* planner_agent_openai, verifier_agent_openai and self_verifier_agent_openai
\* return what call_openai_api returns
app_planner_agent_openai(client, resp) == app_call_openai_api(client, resp)
app_verifier_agent_openai(client, resp) == app_call_openai_api(client, resp)
app_self_verifier_agent_openai(client, resp) == app_call_openai_api(client, resp)

\* executor_agent: the test that returns before the search is made
app_executor_returns_early(task) ==
    IF task.t # "str" THEN TRUE
    ELSE contains(task.v, FAILED) \/ contains(task.v, error)

app_executor_early_output == ExecutorInvalidTask

app_executor_output(sr) ==
    IF sr.kind = "raise" THEN ErrorDuringExecution \o sr.msg
    ELSE IF sr.results # <<>> THEN sr.results[1] ELSE NoSearchResults

app_no_verifier_result(output) ==
    Dict([EmptyDict EXCEPT !.verified = Bool(~startswith(output, ErrorMarker)),
                           !.reasoning = Str(AppNoVerifierReasoning)])

\* ------------------------------------------------- dispatch on the script
planner(s, client, resp) ==
    CASE s = "openai" -> openai_planner_agent_openai(resp)
      [] s = "phi" -> phi_planner_agent(resp)
      [] s = "app" -> app_planner_agent_openai(client, resp)

executor_returns_early(s, task) ==
    CASE s = "openai" -> openai_executor_returns_early(task)
      [] s = "phi" -> phi_executor_returns_early(task)
      [] s = "app" -> app_executor_returns_early(task)

executor_early_output(s) ==
    IF s = "app" THEN app_executor_early_output ELSE openai_executor_early_output

executor_output(s, sr) ==
    CASE s = "openai" -> openai_executor_output(sr)
      [] s = "phi" -> phi_executor_output(sr)
      [] s = "app" -> app_executor_output(sr)

\* the verification strategy kind returns without a language-model call
verification_returns_early(s, kind, pl) ==
    CASE kind = "none" -> TRUE
      [] kind = "verifier" ->
            (CASE s = "openai" ->
                    openai_verifier_returns_early(get_default(pl, "checklist", List(<<>>)))
               [] s = "phi" ->
                    phi_verifier_returns_early(get_default(pl, "checklist", List(<<>>)))
               [] s = "app" -> FALSE)
      [] kind = "self" ->
            (CASE s = "openai" -> openai_self_verifier_returns_early(get(pl, "task"))
               [] s = "phi" -> phi_self_verifier_returns_early(get(pl, "task"))
               [] s = "app" -> FALSE)

\* its result when it returns without a call
verification_early_result(s, kind, out) ==
    CASE kind = "none" ->
            (CASE s = "openai" -> openai_no_verifier_result(out)
               [] s = "phi" -> phi_no_verifier_result(out)
               [] s = "app" -> app_no_verifier_result(out))
      [] kind = "verifier" -> openai_verifier_early_result
      [] kind = "self" -> openai_self_verifier_early_result

\* its result from what the call came back with
verification_result(s, kind, client, resp) ==
    CASE s = "openai" ->
            (IF kind = "verifier" THEN openai_verifier_agent_openai(resp)
             ELSE openai_self_verifier_agent_openai(resp))
      [] s = "phi" ->
            (IF kind = "verifier" THEN phi_verifier_agent(resp)
             ELSE phi_self_verifier_agent(resp))
      [] s = "app" ->
            (IF kind = "verifier" THEN app_verifier_agent_openai(client, resp)
             ELSE app_self_verifier_agent_openai(client, resp))

\* ------------------------------------------------------------------- state
VARIABLES
    script,      \* which of the three scripts runs
    hasKey,      \* OPENAI_API_KEY is set in the environment
    canned,      \* the stubbed backend of this execution
    faults,      \* transient gateway failures so far
    pc,          \* position of the script
    taskIdx,     \* index into BENCHMARK_TASKS of the outer loop
    sysIdx,      \* index into systems of the inner loop (the Radio choice in app.py)
    plan,        \* the planner's return value in the current run
    output,      \* the executor's return value in the current run
    result,      \* the verification strategy's return value in the current run
    sinkState,   \* "unopened", "open" or "closed": the CSV file of main
    sinkHeader,  \* the header rows written to the file
    sinkRows,    \* the rows written by writer.writerow, in order
    display,     \* what run_agent_system last returned to the interface
    requests,    \* requests run_agent_system has been called for
    calls,       \* gateway calls issued by the current run
    inflight,    \* the gateway calls that have not returned yet
    openSessions,\* DDGS sessions that are open
    events,      \* what the gateways did in the current run
    runLog       \* calls and events of the runs whose row was written

vars ==
    << script, hasKey, canned, faults, pc, taskIdx, sysIdx, plan, output, result,
       sinkState, sinkHeader, sinkRows, display, requests, calls, inflight,
       openSessions, events, runLog >>

NoCalls == [llm |-> 0, search |-> 0]
NoEvents == [planner |-> "none", search |-> "none", verify |-> "none"]
NoDisplay == [kind |-> "none", plan |-> None, output |-> <<>>, result |-> None, status |-> ""]
DefaultBackend ==
    [plan |-> LlmRaise("AuthenticationError", <<"4","0","1">>),
     verdict |-> LlmRaise("AuthenticationError", <<"4","0","1">>),
     search |-> SearchOk(<<>>)]

\* a client object that is there whether or not the key was found
client_always_built == TRUE

\* the client object of the script: app.py leaves it None without a key
client == hasKey

strategy == systems(script)[sysIdx]

Init ==
    /\ script \in Scripts
    /\ hasKey \in BOOLEAN
    /\ script = "phi" => hasKey
    /\ canned \in CannedBackends
    /\ ~hasKey => canned = DefaultBackend
    /\ faults = 0
    /\ pc = "start"
    /\ taskIdx = 1
    /\ sysIdx = 1
    /\ plan = None
    /\ output = <<>>
    /\ result = None
    /\ sinkState = "unopened"
    /\ sinkHeader = <<>>
    /\ sinkRows = <<>>
    /\ display = NoDisplay
    /\ requests = 0
    /\ calls = NoCalls
    /\ inflight = {}
    /\ openSessions = 0
    /\ events = NoEvents
    /\ runLog = <<>>

\* what a language-model call may come back with: the canned answer, or a
\* transient failure in its place
LlmOutcomes(c) ==
    {c} \cup (IF faults < MaxFaults /\ c.kind = "ok" THEN TransientLlmFailures ELSE {})

\* a row whose executor_output is kept in a buffer shared by all runs
row_from_shared_buffer ==
    [ task_id |-> BENCHMARK_TASKS[taskIdx].id,
      goal |-> BENCHMARK_TASKS[taskIdx].goal,
      system_type |-> strategy.name,
      planner_task |-> get(plan.v, "task"),
      planner_checklist |-> json_dumps(get(plan.v, "checklist")),
      executor_output |-> IF sinkRows = <<>> THEN output
                          ELSE sinkRows[Len(sinkRows)].executor_output \o output,
      system_reported_success |-> get(result.v, "verified"),
      verifier_reasoning |-> get(result.v, "reasoning") ]

\* the row main passes to writer.writerow
row ==
    [ task_id |-> BENCHMARK_TASKS[taskIdx].id,
      goal |-> BENCHMARK_TASKS[taskIdx].goal,
      system_type |-> strategy.name,
      planner_task |-> get(plan.v, "task"),
      planner_checklist |-> json_dumps(get(plan.v, "checklist")),
      executor_output |-> output,
      system_reported_success |-> get(result.v, "verified"),
      verifier_reasoning |-> get(result.v, "reasoning") ]

\* a blocking gateway call: it is in flight from the moment it is issued
\* until it returns or raises
call_issued(pending, c) == pending \cup {c}
call_left_pending(pending, c) == pending
call_returned(pending, c) == pending \ {c}

\* the with block of executor_agent releases the session when it is left,
\* by return or by exception
session_leaked(n) == n
session_exit(n) == n - 1

\* writer.writerow(r) on a file holding rows
writerow_buffered(rows, r) == rows
writerow(rows, r) == Append(rows, r)

\* an outer loop that moves on after every row
next_taskIdx_every_row == taskIdx + 1

\* the position of the two nested for loops after one more iteration
next_taskIdx == IF sysIdx < Len(systems(script)) THEN taskIdx ELSE taskIdx + 1
next_sysIdx == IF sysIdx < Len(systems(script)) THEN sysIdx + 1 ELSE 1

\* module level of the script up to main() or demo.launch()
Startup ==
    /\ pc = "start"
    /\ pc' = CASE script = "openai" -> (IF hasKey THEN "main" ELSE "exited")
               [] script = "phi" -> "main"
               [] script = "app" -> "idle"
    /\ UNCHANGED << script, hasKey, canned, faults, taskIdx, sysIdx, plan, output,
                    result, sinkState, sinkHeader, sinkRows, display, requests,
                    calls, inflight, openSessions, events, runLog >>

\* main: open the file and write the header
OpenSink ==
    /\ pc = "main"
    /\ sinkState' = "open"
    /\ sinkHeader' = Append(sinkHeader, csv_headers)
    /\ pc' = "loop"
    /\ UNCHANGED << script, hasKey, canned, faults, taskIdx, sysIdx, plan, output,
                    result, sinkRows, display, requests, calls, inflight,
                    openSessions, events, runLog >>

\* main: the next (task, system) pair; system_func calls the planner, which
\* issues its language-model call
StartRun ==
    /\ pc = "loop"
    /\ taskIdx <= NumTasks
    /\ plan' = None
    /\ output' = <<>>
    /\ result' = None
    /\ calls' = [llm |-> 1, search |-> 0]
    /\ events' = NoEvents
    /\ inflight' = call_issued(inflight, "planner")
    /\ pc' = "plan_wait"
    /\ UNCHANGED << script, hasKey, canned, faults, taskIdx, sysIdx, sinkState,
                    sinkHeader, sinkRows, display, requests, openSessions, runLog >>

\* main: the loops are over, the with block closes the file
Finish ==
    /\ pc = "loop"
    /\ taskIdx > NumTasks
    /\ sinkState' = "closed"
    /\ pc' = "done"
    /\ UNCHANGED << script, hasKey, canned, faults, taskIdx, sysIdx, plan, output,
                    result, sinkHeader, sinkRows, display, requests, calls,
                    inflight, openSessions, events, runLog >>

\* app.py: run_agent_system(goal, system_choice) is called; without a client
\* it returns the configuration error, else the planner issues its call
Request(choice) ==
    /\ pc = "idle"
    /\ requests < MaxRequests
    /\ requests' = requests + 1
    /\ sysIdx' = choice
    /\ plan' = None
    /\ output' = <<>>
    /\ result' = None
    /\ events' = NoEvents
    /\ IF ~client
       THEN /\ display' = [NoDisplay EXCEPT !.kind = "config_error"]
            /\ calls' = NoCalls
            /\ pc' = "idle"
            /\ UNCHANGED inflight
       ELSE /\ calls' = [llm |-> 1, search |-> 0]
            /\ inflight' = call_issued(inflight, "planner")
            /\ pc' = "plan_wait"
            /\ UNCHANGED display
    /\ UNCHANGED << script, hasKey, canned, faults, taskIdx, sinkState, sinkHeader,
                    sinkRows, openSessions, runLog >>

\* the planner's call returns; the run functions then call plan.get, which
\* raises if the planner did not return a dict; run_agent_system returns the
\* planner failure report if the plan holds the key "error"
PlannerReturn ==
    /\ pc = "plan_wait"
    /\ \E resp \in LlmOutcomes(canned.plan) :
        /\ plan' = planner(script, client, resp)
        /\ faults' = IF resp = canned.plan THEN faults ELSE faults + 1
        /\ events' = [events EXCEPT !.planner = IF resp.kind = "ok" THEN "ok" ELSE "failed"]
    /\ inflight' = call_returned(inflight, "planner")
    /\ IF plan'.t # "dict"
       THEN /\ pc' = "crashed"
            /\ sinkState' = "closed"
            /\ UNCHANGED display
       ELSE IF script = "app" /\ has_key(plan'.v, "error")
       THEN /\ pc' = "idle"
            /\ display' = [NoDisplay EXCEPT !.kind = "planner_failed", !.plan = plan']
            /\ UNCHANGED sinkState
       ELSE /\ pc' = "exec"
            /\ UNCHANGED << sinkState, display >>
    /\ UNCHANGED << script, hasKey, canned, taskIdx, sysIdx, output, result,
                    sinkHeader, sinkRows, requests, calls, openSessions, runLog >>

\* executor_agent returns before the search
ExecutorEarly ==
    /\ pc = "exec"
    /\ executor_returns_early(script, get(plan.v, "task"))
    /\ output' = executor_early_output(script)
    /\ pc' = "verify"
    /\ UNCHANGED << script, hasKey, canned, faults, taskIdx, sysIdx, plan, result,
                    sinkState, sinkHeader, sinkRows, display, requests, calls,
                    inflight, openSessions, events, runLog >>

\* executor_agent opens a DDGS session and issues the search
ExecutorSearchCall ==
    /\ pc = "exec"
    /\ ~executor_returns_early(script, get(plan.v, "task"))
    /\ openSessions' = openSessions + 1
    /\ calls' = [calls EXCEPT !.search = @ + 1]
    /\ inflight' = call_issued(inflight, "search")
    /\ pc' = "exec_wait"
    /\ UNCHANGED << script, hasKey, canned, faults, taskIdx, sysIdx, plan, output,
                    result, sinkState, sinkHeader, sinkRows, display, requests,
                    events, runLog >>

\* the search returns or raises; the with block releases the session
ExecutorSearchReturn ==
    /\ pc = "exec_wait"
    /\ LET sr == canned.search
       IN  /\ output' = executor_output(script, sr)
           /\ events' = [events EXCEPT !.search =
                           IF sr.kind = "raise" THEN "raise"
                           ELSE IF sr.results = <<>> THEN "empty" ELSE "ok"]
    /\ openSessions' = session_exit(openSessions)
    /\ inflight' = call_returned(inflight, "search")
    /\ pc' = "verify"
    /\ UNCHANGED << script, hasKey, canned, faults, taskIdx, sysIdx, plan, result,
                    sinkState, sinkHeader, sinkRows, display, requests, calls, runLog >>

\* the No-Verifier baseline computes its result from the output
NoVerifier ==
    /\ pc = "verify"
    /\ strategy.kind = "none"
    /\ result' = verification_early_result(script, strategy.kind, output)
    /\ pc' = "write"
    /\ UNCHANGED << script, hasKey, canned, faults, taskIdx, sysIdx, plan, output,
                    sinkState, sinkHeader, sinkRows, display, requests, calls,
                    inflight, openSessions, events, runLog >>

\* the verifier or the self-verifier returns without a language-model call
VerifySkip ==
    /\ pc = "verify"
    /\ strategy.kind # "none"
    /\ verification_returns_early(script, strategy.kind, plan.v)
    /\ result' = verification_early_result(script, strategy.kind, output)
    /\ pc' = "write"
    /\ UNCHANGED << script, hasKey, canned, faults, taskIdx, sysIdx, plan, output,
                    sinkState, sinkHeader, sinkRows, display, requests, calls,
                    inflight, openSessions, events, runLog >>

\* the verifier or the self-verifier issues its language-model call
VerifyCall ==
    /\ pc = "verify"
    /\ strategy.kind # "none"
    /\ ~verification_returns_early(script, strategy.kind, plan.v)
    /\ calls' = [calls EXCEPT !.llm = @ + 1]
    /\ inflight' = call_issued(inflight, "verification")
    /\ pc' = "verify_wait"
    /\ UNCHANGED << script, hasKey, canned, faults, taskIdx, sysIdx, plan, output,
                    result, sinkState, sinkHeader, sinkRows, display, requests,
                    openSessions, events, runLog >>

\* the verification call returns
VerifyReturn ==
    /\ pc = "verify_wait"
    /\ \E resp \in LlmOutcomes(canned.verdict) :
        /\ result' = verification_result(script, strategy.kind, client, resp)
        /\ faults' = IF resp = canned.verdict THEN faults ELSE faults + 1
        /\ events' = [events EXCEPT !.verify = IF resp.kind = "ok" THEN "ok" ELSE "failed"]
    /\ inflight' = call_returned(inflight, "verification")
    /\ pc' = "write"
    /\ UNCHANGED << script, hasKey, canned, taskIdx, sysIdx, plan, output, sinkState,
                    sinkHeader, sinkRows, display, requests, calls, openSessions,
                    runLog >>

\* main: writer.writerow appends the row of the run; result.get raises if the
\* strategy did not return a dict
WriteRow ==
    /\ pc = "write"
    /\ script \in Batch
    /\ IF result.t # "dict"
       THEN /\ pc' = "crashed"
            /\ sinkState' = "closed"
            /\ UNCHANGED << sinkRows, runLog, taskIdx, sysIdx >>
       ELSE /\ sinkState = "open"
            /\ sinkRows' = writerow(sinkRows, row)
            /\ runLog' = Append(runLog, [calls |-> calls, events |-> events])
            /\ taskIdx' = next_taskIdx
            /\ sysIdx' = next_sysIdx
            /\ pc' = "loop"
            /\ UNCHANGED sinkState
    /\ UNCHANGED << script, hasKey, canned, faults, plan, output, result, sinkHeader,
                    display, requests, calls, inflight, openSessions, events >>

\* a failed write with the file opened outside a with block: the exception
\* ends the batch and nothing closes the file
WriteRowFails_without_with ==
    /\ pc = "write"
    /\ script \in Batch
    /\ result.t = "dict"
    /\ pc' = "aborted"
    /\ UNCHANGED << script, hasKey, canned, faults, taskIdx, sysIdx, plan, output,
                    result, sinkState, sinkHeader, sinkRows, display, requests, calls,
                    inflight, openSessions, events, runLog >>

\* main: writer.writerow raises (the sink's I/O fails); the exception leaves
\* the with block, which closes the file, and ends the batch
WriteRowFails ==
    /\ pc = "write"
    /\ script \in Batch
    /\ result.t = "dict"
    /\ sinkState' = "closed"
    /\ pc' = "aborted"
    /\ UNCHANGED << script, hasKey, canned, faults, taskIdx, sysIdx, plan, output,
                    result, sinkHeader, sinkRows, display, requests, calls,
                    inflight, openSessions, events, runLog >>

\* run_agent_system: build the report and return it to the interface
Render ==
    /\ pc = "write"
    /\ script = "app"
    /\ display' =
         [ kind |-> IF has_key(result.v, "error") THEN "verification_failed" ELSE "verdict",
           plan |-> plan,
           output |-> output,
           result |-> result,
           status |-> IF has_key(result.v, "error") THEN ""
                      ELSE IF Truthy(get(result.v, "verified")) THEN "SUCCESS"
                      ELSE "FAILURE" ]
    /\ pc' = "idle"
    /\ UNCHANGED << script, hasKey, canned, faults, taskIdx, sysIdx, plan, output,
                    result, sinkState, sinkHeader, sinkRows, requests, calls,
                    inflight, openSessions, events, runLog >>

Next ==
    \/ Startup
    \/ OpenSink
    \/ StartRun
    \/ Finish
    \/ \E choice \in 1..Len(systems("app")) : Request(choice)
    \/ PlannerReturn
    \/ ExecutorEarly
    \/ ExecutorSearchCall
    \/ ExecutorSearchReturn
    \/ NoVerifier
    \/ VerifySkip
    \/ VerifyCall
    \/ VerifyReturn
    \/ WriteRow
    \/ WriteRowFails
    \/ Render

Spec == Init /\ [][Next]_vars

\* the scripts are sequential programs: a step that can be taken is taken
FairSpec == Spec /\ WF_vars(Next)

\* ------------------------------------------------------------------ claims
\* helpers of the statements below
SentinelPlan ==
    Dict([EmptyDict EXCEPT !.task = Str(PLANNER_AGENT_FAILED), !.checklist = List(<<>>)])
IsFalse(x) == x.t = "bool" /\ ~x.v
IsTrue(x) == x.t = "bool" /\ x.v
NonEmptyStr(x) == x.t = "str" /\ Len(x.v) > 0
\* the first six characters are E, r, r, o, r and the colon
HasErrorPrefix(s) == Len(s) >= 6 /\ \A i \in 1..6 : s[i] = <<"E", "r", "r", "o", "r", ":">>[i]
AfterPlanner == {"exec", "exec_wait", "verify", "verify_wait", "write"}
AfterExecutor == {"verify", "verify_wait", "write"}
NumSystems == Len(systems(script))
\* the (task, system) pair of the i-th iteration of the nested loops
PairTask(i) == ((i - 1) \div NumSystems) + 1
PairSystem(i) == ((i - 1) % NumSystems) + 1
RunFailed(ev) ==
    \/ ev.planner = "failed"
    \/ ev.search \in {"empty", "raise"}
    \/ ev.verify = "failed"
\* the task a failed planner hands to the executor
IsFailureTask(task) ==
    \/ PyEqStr(task, PLANNER_AGENT_FAILED)
    \/ (script = "phi" /\ PyEqStr(task, ErrorInPlanning))
ChecklistIsEmpty ==
    LET c == get_default(plan.v, "checklist", List(<<>>)) IN c.t = "list" /\ c.v = <<>>

\* C1: in a batch run whose planner call failed, the plan is the sentinel
\* {task: PLANNER_AGENT_FAILED, checklist: []}, the run makes no search call and
\* no further language-model call, and its verdict is verified = false, with
\* the checklist-unavailable reasoning under the Verifier strategy.
C1_PlannerFailureShortCircuits ==
    (script \in Batch /\ events.planner = "failed" /\ pc \in AfterPlanner) =>
        /\ plan = SentinelPlan
        /\ calls = [llm |-> 1, search |-> 0]
        /\ pc = "write" =>
            /\ IsFalse(get(result.v, "verified"))
            /\ strategy.kind = "verifier" =>
                   get(result.v, "reasoning") = Str(VerificationSkipped)

\* C2: when the executor is called with the task of a failed planner, it
\* returns a string that starts with the error marker and the run has made no
\* search call.
C2_ExecutorSkipsSearchOnSentinel ==
    (pc \in {"exec_wait"} \cup AfterExecutor /\ IsFailureTask(get(plan.v, "task"))) =>
        /\ calls.search = 0
        /\ pc \in AfterExecutor => HasErrorPrefix(output)

\* C3: the planner returns a well-formed plan (a non-empty task string and a
\* checklist that is a list of strings) when its call succeeded, and exactly
\* the sentinel plan otherwise; never another shape.
C3_PlanIsWellFormedOrSentinel ==
    events.planner # "none" =>
        \/ plan = SentinelPlan
        \/ /\ events.planner = "ok"
           /\ plan.t = "dict"
           /\ NonEmptyStr(plan.v.task)
           /\ plan.v.checklist.t = "list"
           /\ \A i \in 1..Len(plan.v.checklist.v) : plan.v.checklist.v[i].t = "str"

\* C4: with an empty checklist the Verifier strategy makes no language-model
\* call and returns verified = false.
C4_EmptyChecklistSkipsVerification ==
    (strategy.kind = "verifier" /\ pc \in {"verify_wait", "write"} /\ ChecklistIsEmpty) =>
        /\ calls.llm = 1
        /\ pc = "write" => IsFalse(get(result.v, "verified"))

\* C5: the No-Verifier result has verified = (the output does not start with
\* "Error:") for every output, the empty one and one holding the marker after
\* its first character included, and the reasoning is one fixed string; the
\* rows of the baseline carry the same flag.
C5_NoVerifierTestsThePrefix ==
    /\ (pc = "write" /\ strategy.kind = "none") =>
        /\ result.t = "dict"
        /\ get(result.v, "verified") = Bool(~HasErrorPrefix(output))
        /\ get(result.v, "reasoning") =
              Str(IF script = "app" THEN AppNoVerifierReasoning ELSE NoVerifierReasoning)
    /\ \A i \in 1..Len(sinkRows) :
        systems(script)[PairSystem(i)].kind = "none" =>
            /\ sinkRows[i].system_reported_success =
                  Bool(~HasErrorPrefix(sinkRows[i].executor_output))
            /\ sinkRows[i].verifier_reasoning = Str(NoVerifierReasoning)

\* a No-Verifier result for an output that holds the marker after its first
\* character, and so is reported verified
C5_Witness ==
    /\ pc = "write"
    /\ strategy.kind = "none"
    /\ contains(output, ErrorMarker)
    /\ ~HasErrorPrefix(output)
    /\ IsTrue(get(result.v, "verified"))

\* C6: every failure path of the executor of src/openai.py (the sentinel task,
\* no search result, a search that raised) returns a string that starts with
\* the error marker, so the No-Verifier baseline reports verified = false.
C6_ExecutorFailuresCarryTheMarker ==
    (script = "openai" /\ pc \in AfterExecutor
        /\ (calls.search = 0 \/ events.search \in {"empty", "raise"})) =>
        /\ HasErrorPrefix(output)
        /\ (pc = "write" /\ strategy.kind = "none") => IsFalse(get(result.v, "verified"))

\* C7: in the batch of src/openai.py every run in which a gateway failed (the
\* planner call, the search, the verification call) has exactly one row, with
\* verified = false and a non-empty reasoning.
C7_FailedRunsAreRecordedUnverified ==
    script = "openai" =>
        /\ Len(sinkRows) = Len(runLog)
        /\ \A i \in 1..Len(sinkRows) :
            RunFailed(runLog[i].events) =>
                /\ IsFalse(sinkRows[i].system_reported_success)
                /\ NonEmptyStr(sinkRows[i].verifier_reasoning)

\* C8: when the batch completes, the file holds one header row and exactly
\* NumTasks x 3 rows, the i-th for the i-th (task, system) pair in task order
\* and, within a task, in the declaration order of systems.
C8_CompletedBatchIsOrdered ==
    pc = "done" =>
        /\ sinkHeader = <<csv_headers>>
        /\ Len(sinkRows) = NumTasks * NumSystems
        /\ \A i \in 1..Len(sinkRows) :
            /\ sinkRows[i].task_id = BENCHMARK_TASKS[PairTask(i)].id
            /\ sinkRows[i].goal = BENCHMARK_TASKS[PairTask(i)].goal
            /\ sinkRows[i].system_type = systems(script)[PairSystem(i)].name
        /\ \A i, j \in 1..Len(sinkRows) :
            i < j => \/ sinkRows[i].task_id < sinkRows[j].task_id
                     \/ /\ sinkRows[i].task_id = sinkRows[j].task_id
                        /\ sinkRows[i].system_type # sinkRows[j].system_type

\* a completed batch whose last row is of the last task and the last system
C8_Witness ==
    /\ pc = "done"
    /\ Len(sinkRows) = NumTasks * NumSystems
    /\ sinkRows[Len(sinkRows)].task_id = NumTasks
    /\ sinkRows[Len(sinkRows)].system_type = systems(script)[NumSystems].name

\* C9: whatever the gateways return or raise, no run makes the batch raise,
\* and the batch ends: either a write to the sink failed, or main returns with
\* every (task, system) pair processed.
C9_BatchNeverAbortsOnARunFailure ==
    /\ [](pc # "crashed")
    /\ (script \in Batch /\ hasKey) =>
          <>(\/ pc = "aborted"
             \/ pc = "done" /\ Len(sinkRows) = NumTasks * NumSystems)

\* a completed batch in which a planner call failed, a search raised and a
\* verification call failed
C9_Witness ==
    /\ pc = "done"
    /\ \E i \in 1..Len(runLog) : runLog[i].events.planner = "failed"
    /\ \E i \in 1..Len(runLog) : runLog[i].events.search = "raise"
    /\ \E i \in 1..Len(runLog) : runLog[i].events.verify = "failed"

\* C10: the row of a run is in the file before the next run's planner is
\* called: at every point of the batch the file holds exactly one row per
\* completed run, in the final order, the last being the row of the run that
\* just ended; when a write fails at run k the rows of runs 1..k-1 are there.
C10_RowsAreWrittenAsRunsComplete ==
    (script \in Batch /\ pc \notin {"start", "main", "exited"}) =>
        /\ Len(sinkRows) = (taskIdx - 1) * NumSystems + (sysIdx - 1)
        /\ \A i \in 1..Len(sinkRows) :
            /\ sinkRows[i].task_id = PairTask(i)
            /\ sinkRows[i].system_type = systems(script)[PairSystem(i)].name
        /\ (pc = "loop" /\ sinkRows # <<>>) =>
            /\ sinkRows[Len(sinkRows)].executor_output = output
            /\ sinkRows[Len(sinkRows)].planner_task = get(plan.v, "task")
            /\ sinkRows[Len(sinkRows)].system_reported_success = get(result.v, "verified")

\* the planner call of the fourth run is in flight and three rows are written;
\* a write failed at the fourth run and three rows are written
C10_Witness ==
    /\ script \in Batch
    /\ pc \in {"plan_wait", "aborted"}
    /\ taskIdx = 2
    /\ sysIdx = 1
    /\ Len(sinkRows) = 3


\* ---------------------------------------------------------------------------
\* Claims about failure handling, resources and ordering
\* ---------------------------------------------------------------------------

\* the literal a strategy puts in its reasoning when its gateway call failed
VerificationFailureText(s, kind) ==
    IF s = "openai"
    THEN (IF kind = "verifier" THEN VerificationApiError ELSE SelfVerificationApiError)
    ELSE (IF kind = "verifier" THEN ErrorInVerification ELSE ErrorInSelfVerification)

\* a batch run whose verification call was made and failed
VerificationCallFailed ==
    script \in Batch /\ pc = "write" /\ strategy.kind # "none" /\ events.verify = "failed"

\* C11 (as stated): when the verification call of Verifier or Self-Verifier
\* fails, the strategy returns verified = false with one fixed reasoning string,
\* raises nothing and makes the call once.
C11_FailedVerificationHasAFixedReasoning ==
    VerificationCallFailed =>
        /\ result.t = "dict"
        /\ IsFalse(get(result.v, "verified"))
        /\ get(result.v, "reasoning") = Str(VerificationFailureText(script, strategy.kind))
        /\ calls.llm = 2

\* C11 (amended): when the verification call fails the strategy returns a dict
\* with verified = false and a reasoning that begins with the strategy's
\* failure text (in src/openai.py it is exactly that text, in src/phi.py the
\* text of the exception follows it), and the call was made exactly once.
C11_FailedVerificationIsUnverified ==
    VerificationCallFailed =>
        /\ result.t = "dict"
        /\ IsFalse(get(result.v, "verified"))
        /\ get(result.v, "reasoning").t = "str"
        /\ startswith(get(result.v, "reasoning").v,
                      VerificationFailureText(script, strategy.kind))
        /\ script = "openai" =>
              get(result.v, "reasoning").v = VerificationFailureText(script, strategy.kind)
        /\ calls.llm = 2

\* the Verifier of src/openai.py after a failed call on a non-empty checklist
C11_Witness ==
    /\ script = "openai"
    /\ pc = "write"
    /\ strategy.kind = "verifier"
    /\ events.verify = "failed"
    /\ ~ChecklistIsEmpty
    /\ get(result.v, "reasoning") = Str(VerificationApiError)

\* C12: whenever the Self-Verifier of a batch script is called with the task
\* of a failed planner, it makes no language-model call (the planner's call
\* stays the only one of the run) and returns verified = false, whatever the
\* executor's output is.
C12_SelfVerifierSkipsOnSentinel ==
    ( /\ script \in Batch
      /\ strategy.kind = "self"
      /\ pc \in {"verify_wait", "write"}
      /\ plan.t = "dict"
      /\ IsFailureTask(get(plan.v, "task")) )
    => /\ pc = "write"
       /\ calls.llm = 1
       /\ events.verify = "none"
       /\ result.t = "dict"
       /\ IsFalse(get(result.v, "verified"))

\* the scripts whose call counts C13 is about
CountedScripts == {"openai", "app"}

\* the task for which the executor makes no search: the sentinel in
\* src/openai.py; in src/app.py a task that is not a string or that contains
\* "FAILED" or "error"
SearchIsSkipped(task) ==
    IF script = "openai" THEN PyEqStr(task, PLANNER_AGENT_FAILED)
    ELSE IF task.t # "str" THEN TRUE
    ELSE contains(task.v, FAILED) \/ contains(task.v, error)

\* the counts of a run that do not depend on the executor's test: one planner
\* call, no verification call with No-Verifier and at most one otherwise, and
\* never more than 2 language-model calls and 1 search call
LlmCallCounts ==
    /\ pc \in {"plan_wait", "exec", "exec_wait", "verify"} => calls.llm = 1
    /\ pc = "verify_wait" => calls.llm = 2 /\ strategy.kind # "none"
    /\ pc = "write" =>
          /\ calls.llm = (IF events.verify = "none" THEN 1 ELSE 2)
          /\ strategy.kind = "none" => calls.llm = 1
    /\ calls.llm <= 2
    /\ calls.search <= 1
    /\ \A i \in 1..Len(runLog) :
          /\ runLog[i].calls.llm \in 1..2
          /\ runLog[i].calls.search \in 0..1
          /\ systems(script)[PairSystem(i)].kind = "none" => runLog[i].calls.llm = 1
          /\ runLog[i].calls.llm = (IF runLog[i].events.verify = "none" THEN 1 ELSE 2)
          /\ runLog[i].calls.search = (IF runLog[i].events.search = "none" THEN 0 ELSE 1)

\* C13 (as stated): per run one planner call, one search call exactly when the
\* planned task is not the failure sentinel, no verification call with
\* No-Verifier and at most one otherwise, and nothing re-issued.
C13_SearchCountFollowsTheSentinel ==
    script \in CountedScripts =>
        /\ LlmCallCounts
        /\ pc \in AfterExecutor =>
              calls.search =
                 (IF PyEqStr(get(plan.v, "task"), PLANNER_AGENT_FAILED) THEN 0 ELSE 1)

\* C13 (amended): per run one planner call, one search call exactly when the
\* executor's own test of the task lets it through (SearchIsSkipped is false),
\* no verification call with No-Verifier and at most one otherwise, and
\* nothing re-issued.
C13_SearchCountFollowsTheExecutorTest ==
    script \in CountedScripts =>
        /\ LlmCallCounts
        /\ pc \in AfterExecutor =>
              calls.search = (IF SearchIsSkipped(get(plan.v, "task")) THEN 0 ELSE 1)

\* a request of src/app.py whose plan has no task: no search, two
\* language-model calls
C13_Witness ==
    /\ script = "app"
    /\ pc = "write"
    /\ ~has_key(plan.v, "task")
    /\ calls = [llm |-> 2, search |-> 0]

\* what a record holds besides the identification of its task
RecordOfRun(r) ==
    << r.system_type, r.planner_task, r.planner_checklist, r.executor_output,
       r.system_reported_success, r.verifier_reasoning >>

\* runs i and j used the same strategy and their gateway calls had the same
\* outcomes; the backend is fixed for the execution, so these are runs that
\* received the same responses
SameRequests(i, j) ==
    /\ PairSystem(i) = PairSystem(j)
    /\ runLog[i].events = runLog[j].events

\* C14: in a batch, two runs with the same strategy that received the same
\* responses from the language model and the search wrote records with the
\* same task, checklist, execution output, verified flag and reasoning,
\* wherever the two runs stand in the batch.
C14_SameResponsesGiveTheSameRecord ==
    (script \in Batch /\ Len(runLog) = Len(sinkRows)) =>
        \A i, j \in 1..Len(sinkRows) :
            SameRequests(i, j) => RecordOfRun(sinkRows[i]) = RecordOfRun(sinkRows[j])

\* the first run of a batch and a later run with the same strategy and
\* responses, both with a search result in the record
C14_Witness ==
    /\ script = "openai"
    /\ Len(sinkRows) > NumSystems
    /\ Len(runLog) = Len(sinkRows)
    /\ SameRequests(1, NumSystems + 1)
    /\ runLog[1].events.search = "ok"
    /\ Len(sinkRows[1].executor_output) > 0
    /\ IsTrue(sinkRows[NumSystems + 1].system_reported_success)

\* C15: without the credential, the batch of src/openai.py goes from start to
\* exit and nowhere else: no gateway call, the file never opened, no header
\* and no row; and src/app.py answers every request with the configuration
\* error, with no planner, executor or verification step and no gateway call.
C15_MissingCredentialStopsEverything ==
    ~hasKey =>
        /\ script # "phi"
        /\ calls = NoCalls
        /\ inflight = {}
        /\ events = NoEvents
        /\ openSessions = 0
        /\ plan = None /\ output = <<>> /\ result = None
        /\ script = "openai" =>
              /\ pc \in {"start", "exited"}
              /\ sinkState = "unopened"
              /\ sinkHeader = <<>>
              /\ sinkRows = <<>>
        /\ script = "app" =>
              /\ pc \in {"start", "idle"}
              /\ display.kind = (IF requests = 0 THEN "none" ELSE "config_error")

\* src/app.py without the credential after its last request
C15_Witness ==
    /\ script = "app"
    /\ ~hasKey
    /\ requests = MaxRequests
    /\ display.kind = "config_error"

\* the positions of a batch between the opening of the file and its end
InsideWith == {"loop", "plan_wait", "exec", "exec_wait", "verify", "verify_wait", "write"}

\* the positions at which a batch has left the with block
AfterWith == {"done", "aborted", "crashed"}

\* C16: in a batch the file goes unopened -> open -> closed and never back;
\* it is open, with exactly one header row, at every position inside the with
\* block, and closed at every position after it (normal end, a write that
\* raised, a run that raised); the header is written once, on an empty file,
\* and rows are added only while the file is open.
C16_SinkLifecycle ==
    /\ [](script \in Batch =>
            /\ pc \in {"start", "main", "exited"} =>
                  sinkState = "unopened" /\ sinkHeader = <<>> /\ sinkRows = <<>>
            /\ pc \in InsideWith => sinkState = "open" /\ sinkHeader = <<csv_headers>>
            /\ pc \in AfterWith => sinkState = "closed" /\ sinkHeader = <<csv_headers>>)
    /\ [][ /\ sinkState' # sinkState =>
                \/ sinkState = "unopened" /\ sinkState' = "open"
                \/ sinkState = "open" /\ sinkState' = "closed"
           /\ sinkHeader' # sinkHeader =>
                /\ sinkState = "unopened" /\ sinkState' = "open"
                /\ sinkHeader = <<>> /\ sinkRows = <<>>
           /\ sinkRows' # sinkRows =>
                /\ sinkState = "open" /\ sinkState' = "open"
                /\ sinkHeader = <<csv_headers>>
                /\ Len(sinkRows') = Len(sinkRows) + 1 ]_vars

\* a batch ended by a write that raised, after at least one row was written
C16_Witness ==
    /\ script \in Batch
    /\ pc = "aborted"
    /\ sinkState = "closed"
    /\ Len(sinkRows) >= 1

\* C17: a search session is open only while the executor's search is in
\* flight: there is never more than one, and once the search has returned a
\* result, returned nothing or raised, and between runs, there is none.
C17_SearchSessionIsReleased ==
    /\ openSessions \in {0, 1}
    /\ openSessions = 1 <=> pc = "exec_wait"
    /\ events.search \in {"ok", "empty", "raise"} => openSessions = 0

\* the executor has returned from a search that raised
C17_Witness ==
    /\ script \in Batch
    /\ pc = "verify"
    /\ calls.search = 1
    /\ events.search = "raise"
    /\ openSessions = 0

\* C18: every row of a batch has a verified field that is true or false and a
\* reasoning field that is a string, whatever JSON object the verification
\* call returned.
C18_EveryRecordHasABooleanVerdict ==
    script \in Batch =>
        \A i \in 1..Len(sinkRows) :
            /\ sinkRows[i].system_reported_success.t = "bool"
            /\ sinkRows[i].verifier_reasoning.t = "str"

\* C19: at most one gateway call is in flight at any time, and a call starts
\* only when none is in flight: the search starts after the planner's call
\* has returned, the verification call after the planner's call and the
\* search (if one was made) have returned, and the planner's call of a run
\* after every call of the run before it has returned and its row is written.
C19_OneCallAtATime ==
    /\ [](/\ Cardinality(inflight) <= 1
          /\ "search" \in inflight => events.planner # "none"
          /\ "verification" \in inflight =>
                /\ events.planner # "none"
                /\ calls.search = 0 \/ events.search # "none"
          /\ ("planner" \in inflight /\ script \in Batch) =>
                /\ events = NoEvents
                /\ Len(sinkRows) = Len(runLog)
                /\ Len(sinkRows) = (taskIdx - 1) * NumSystems + (sysIdx - 1))
    /\ [][ inflight' # inflight =>
             \/ inflight = {} /\ Cardinality(inflight') = 1
             \/ inflight' = {} /\ Cardinality(inflight) = 1 ]_vars

\* the verification call of a later run of the batch is in flight, after a
\* search that returned
C19_Witness ==
    /\ script = "openai"
    /\ Len(sinkRows) >= 1
    /\ inflight = {"verification"}
    /\ events.planner = "ok"
    /\ events.search = "ok"

\* C20: in src/app.py, when the planner's result has an "error" key (its
\* language-model call failed), the request ends there for every strategy
\* choice: the planner-failure report is displayed, the planner's call is the
\* only gateway call, and there is no execution output and no verdict.
C20_PlannerFailureStopsTheRequest ==
    script = "app" =>
        /\ events.planner = "failed" => (plan.t = "dict" /\ has_key(plan.v, "error"))
        /\ (plan.t = "dict" /\ has_key(plan.v, "error")) =>
              /\ pc = "idle"
              /\ display.kind = "planner_failed"
              /\ display.plan = plan
              /\ calls = [llm |-> 1, search |-> 0]
              /\ inflight = {}
              /\ events.search = "none" /\ events.verify = "none"
              /\ output = <<>> /\ result = None

\* a request for the Verifier System whose planner call failed
C20_Witness ==
    /\ script = "app"
    /\ strategy.kind = "verifier"
    /\ events.planner = "failed"
    /\ display.kind = "planner_failed"
    /\ startswith(get(plan.v, "error").v, ApiCallFailed)
====
